---- MODULE Spec2Model ----
(***************************************************************************)
(* Model of the change-history engine of TOST-HA (tesla order status):     *)
(* the persisted history file, the load / append / rewrite cycle of a      *)
(* polling run and the read-time projection get_history_of_order.          *)
(*                                                                         *)
(* Strings the code inspects character by character (change keys, order    *)
(* ids, table keys, labels) are sequences of one-character strings, so     *)
(* that split('.', 1) and startswith are computed, not assumed.            *)
(* The history file is a sequence of chunks ("bytes"): json.dump produces  *)
(* them, json.load parses them.                                            *)
(***************************************************************************)
EXTENDS Integers, Sequences, FiniteSets, TLC

\* ------------------------------------------------------------------ bounds
MaxAppends == 2

\* ------------------------------------------------------- JSON values
Absent == [type |-> "absent", v |-> ""]
Null == [type |-> "null", v |-> ""]
Str(s) == [type |-> "str", v |-> s]
Num(s) == [type |-> "num", v |-> s]
Map(s) == [type |-> "map", v |-> s]

IsStr(x) == x.type = "str"

\* ------------------------------------------------------- policy tables
\* Keys of the tables, after the order-index prefix has been removed.
k_ab == <<"a", ".", "b">>
k_ac == <<"a", ".", "c">>
k_ad == <<"a", ".", "d">>
k_ag == <<"a", ".", "g">>
k_avin == <<"a", ".", "v", "i", "n">>
k_sx == <<"s", ".", "x">>

HISTORY_TRANSLATIONS_IGNORED == { <<"s", ".">>, k_ag }

HISTORY_TRANSLATIONS == (k_ab :> <<"L", "a", "b", "e", "l">>)

HISTORY_TRANSLATIONS_ANONYMOUS == (k_avin :> <<"V", "I", "N">>)

HISTORY_TRANSLATIONS_DETAILS ==
    HISTORY_TRANSLATIONS @@ HISTORY_TRANSLATIONS_ANONYMOUS
        @@ (k_ad :> <<"D", "e", "t", "a", "i", "l">>)
        @@ (k_ag :> <<"G">>)

\* ------------------------------------------------------- change records
Change(op, key, val, old) ==
    [operation |-> op, key |-> key, value |-> val, old_value |-> old]

WithOrder(id, key) == id \o <<".">> \o key

R_ab == Change("changed", WithOrder(<<"0">>, k_ab), Str("B"), Str("A"))
R_ac == Change("added", WithOrder(<<"0">>, k_ac), Str("X"), Absent)
R_vin == Change("changed", WithOrder(<<"0">>, k_avin), Str("V2"), Str("V1"))
R_vinmap == Change("changed", WithOrder(<<"0">>, k_avin), Map("m"), Str("V1"))
R_ad == Change("changed", WithOrder(<<"0">>, k_ad), Str("1700000000"), Num("7"))
R_sx == Change("removed", WithOrder(<<"0">>, k_sx), Absent, Str("S"))
R_10 == Change("changed", WithOrder(<<"1", "0">>, k_ab), Str("B"), Str("A"))
R_01 == Change("changed", WithOrder(<<"0", "1">>, k_ab), Str("B"), Str("A"))
R_1ab == Change("changed", WithOrder(<<"1">>, k_ab), Str("D"), Str("C"))
R_1 == Change("added", <<"1">>, Absent, Absent)

\* The non-empty difference lists a polling run can hand to the append.
ChangeLists ==
    { <<R_ab, R_ac>>,
      <<R_vin, R_vinmap, R_ad, R_sx>>,
      <<R_10, R_1ab, R_01, R_1>> }

\* TODAY of the runs (time.strftime('%Y-%m-%d') at import).
Timestamps == {"2024-01-01", "2024-01-02"}

OrderIds == { <<"0">>, <<"1">>, <<"1", "0">>, <<"0", "1">> }

\* ------------------------------------------------------- file content
\* One chunk of file content.  json.dump emits the array punctuation and
\* the entries; JUNK is text that is not JSON, BADUTF8 a byte sequence
\* that is not valid UTF-8.
LB == [k |-> "[", e |-> <<>>]
RB == [k |-> "]", e |-> <<>>]
COMMA == [k |-> ",", e |-> <<>>]
JUNK == [k |-> "junk", e |-> <<>>]
BADUTF8 == [k |-> "badutf8", e |-> <<>>]
EntryChunk(entry) == [k |-> "entry", e |-> <<entry>>]

RECURSIVE JoinEntries(_)
JoinEntries(history) ==
    IF history = <<>> THEN <<>>
    ELSE <<EntryChunk(Head(history))>>
         \o (IF Len(history) > 1 THEN <<COMMA>> ELSE <<>>)
         \o JoinEntries(Tail(history))

\* json.dump(history, f): the text of a JSON array of entries.
json_dump(history) == <<LB>> \o JoinEntries(history) \o <<RB>>

IsArrayText(bytes) ==
    /\ Len(bytes) >= 2
    /\ bytes[1] = LB
    /\ bytes[Len(bytes)] = RB
    /\ LET m == SubSeq(bytes, 2, Len(bytes) - 1)
       IN  \/ m = <<>>
           \/ /\ Len(m) % 2 = 1
              /\ \A i \in 1..Len(m) :
                    IF i % 2 = 1 THEN m[i].k = "entry" ELSE m[i] = COMMA

ArrayOf(bytes) ==
    LET m == SubSeq(bytes, 2, Len(bytes) - 1)
    IN  [i \in 1..((Len(m) + 1) \div 2) |-> m[2 * i - 1].e[1]]

\* json.load(f) on a file opened with encoding='utf-8': f.read() decodes
\* the whole file first, then the text is parsed.
json_load(bytes) ==
    IF \E i \in 1..Len(bytes) : bytes[i] = BADUTF8
    THEN [exc |-> "UnicodeDecodeError", val |-> <<>>]
    ELSE IF IsArrayText(bytes)
    THEN [exc |-> "none", val |-> ArrayOf(bytes)]
    ELSE [exc |-> "JSONDecodeError", val |-> <<>>]

NoFile == [exists |-> FALSE, bytes |-> <<>>]
File(bytes) == [exists |-> TRUE, bytes |-> bytes]

\* load_history_from_file: except (OSError, json.JSONDecodeError) -> [].
load_history_from_file(file) ==
    IF file.exists
    THEN LET r == json_load(file.bytes)
         IN  IF r.exc = "JSONDecodeError"
             THEN [exc |-> "none", val |-> <<>>]
             ELSE r
    ELSE [exc |-> "none", val |-> <<>>]

\* history.append({'timestamp': TODAY, 'changes': differences})
HistoryEntry(ts, differences) == [timestamp |-> ts, changes |-> differences]

\* Mutant: the timestamp treated as a key, a second run of the same day
\* replaces the entry of the first.
history_append_keyed(history, ts, differences) ==
    IF history # <<>> /\ history[Len(history)].timestamp = ts
    THEN [history EXCEPT ![Len(history)] = HistoryEntry(ts, differences)]
    ELSE Append(history, HistoryEntry(ts, differences))

history_append(history, ts, differences) ==
    Append(history, HistoryEntry(ts, differences))

\* ------------------------------------------------------- projection
\* Position of the first '.' of a string, 0 when there is none.
FirstDot(key) ==
    IF \E i \in 1..Len(key) : key[i] = "."
    THEN CHOOSE i \in 1..Len(key) :
            key[i] = "." /\ \A j \in 1..(i - 1) : key[j] # "."
    ELSE 0

\* key.split('.', 1)
KeyParts(key) ==
    LET d == FirstDot(key)
    IN  IF d = 0 THEN <<key>>
        ELSE <<SubSeq(key, 1, d - 1), SubSeq(key, d + 1, Len(key))>>

StartsWith(s, pref) ==
    Len(pref) <= Len(s) /\ SubSeq(s, 1, Len(pref)) = pref

\* Mutant: the order id compared as a prefix of the key.
KeyMatchesOrder_prefix(key, order_id) == StartsWith(key, order_id)

\* key_parts[0] != order_id_str  =>  continue
KeyMatchesOrder(key, order_id) == KeyParts(key)[1] = order_id

\* if len(key_parts) > 1: key = key_parts[1]
StrippedKey(key) ==
    IF Len(KeyParts(key)) > 1 THEN KeyParts(key)[2] ELSE key

IsIgnored(key) ==
    \E pref \in HISTORY_TRANSLATIONS_IGNORED : StartsWith(key, pref)

\* Mutant: the short-table test left out.
AllowListed_any(key, details) == TRUE

\* if not DETAILS_MODE: key must be in one of the two short tables.
AllowListed(key, details) ==
    details \/ key \in DOMAIN HISTORY_TRANSLATIONS
            \/ key \in DOMAIN HISTORY_TRANSLATIONS_ANONYMOUS

\* change['key'] = HISTORY_TRANSLATIONS_DETAILS[key]
Translated(change, key) ==
    [change EXCEPT !.key = HISTORY_TRANSLATIONS_DETAILS[key]]

RedactField(x) == IF IsStr(x) THEN Null ELSE x

\* if SHARE_MODE: if key in HISTORY_TRANSLATIONS_ANONYMOUS: null the strings
Redacted(change, key, share) ==
    IF share /\ key \in DOMAIN HISTORY_TRANSLATIONS_ANONYMOUS
    THEN [change EXCEPT !.value = RedactField(@),
                        !.old_value = RedactField(@)]
    ELSE change

\* A string recognised as an epoch timestamp becomes a display date.
get_date_from_timestamp(s) ==
    IF s = "1700000000" THEN "2023-11-14" ELSE s

ConvertField(x) ==
    IF IsStr(x) THEN Str(get_date_from_timestamp(x.v)) ELSE x

ConvertTimestamps(change) ==
    [change EXCEPT !.value = ConvertField(@), !.old_value = ConvertField(@)]

Stamped(change, ts) ==
    [operation |-> change.operation, key |-> change.key,
     value |-> change.value, old_value |-> change.old_value,
     timestamp |-> ts]

\* The body of the inner loop of get_history_of_order for one change of an
\* entry: emit says whether changes.append(change) is reached.
ProjectChange(change, ts, q) ==
    LET key == StrippedKey(change.key)
        drop == [emit |-> FALSE, change |-> Stamped(change, ts)]
        out(c) == [emit |-> TRUE,
                   change |-> Stamped(ConvertTimestamps(c), ts)]
    IN  IF ~KeyMatchesOrder(change.key, q.order_id) THEN drop
        ELSE IF q.ALL_KEYS_MODE THEN out(change)
        ELSE IF IsIgnored(key) THEN drop
        ELSE IF ~AllowListed(key, q.DETAILS_MODE) THEN drop
        ELSE IF key \notin DOMAIN HISTORY_TRANSLATIONS_DETAILS THEN drop
        ELSE out(Redacted(Translated(change, key), key, q.SHARE_MODE))

\* for change in entry['changes'], from position c on.
RECURSIVE ProjectEntry(_, _, _, _)
ProjectEntry(history, e, c, q) ==
    IF c > Len(history[e].changes) THEN <<>>
    ELSE LET r == ProjectChange(history[e].changes[c],
                                history[e].timestamp, q)
         IN  (IF r.emit THEN <<[change |-> r.change, e |-> e, c |-> c]>>
              ELSE <<>>)
             \o ProjectEntry(history, e, c + 1, q)

\* Mutant: the newest entry first.
RECURSIVE ProjectHistory_newestFirst(_, _, _)
ProjectHistory_newestFirst(history, e, q) ==
    IF e > Len(history) THEN <<>>
    ELSE ProjectHistory_newestFirst(history, e + 1, q)
         \o ProjectEntry(history, e, 1, q)

\* for entry in history, from position e on.
RECURSIVE ProjectHistory(_, _, _)
ProjectHistory(history, e, q) ==
    IF e > Len(history) THEN <<>>
    ELSE ProjectEntry(history, e, 1, q) \o ProjectHistory(history, e + 1, q)

\* The loops of get_history_of_order over a loaded history; every emitted
\* change is paired with the position (e, c) of the record it was made from.
ProjectLoop(history, q) == ProjectHistory(history, 1, q)

\* The loaded copy after the loops: every emitted change was modified in
\* place (key, value, old_value, timestamp), the others are untouched.
MutatedCopy(history, emitted) ==
    [e \in 1..Len(history) |->
        [history[e] EXCEPT !.changes =
            [c \in 1..Len(history[e].changes) |->
                IF \E i \in 1..Len(emitted) :
                      emitted[i].e = e /\ emitted[i].c = c
                THEN (CHOOSE x \in {emitted[i] : i \in 1..Len(emitted)} :
                         x.e = e /\ x.c = c).change
                ELSE history[e].changes[c]]]]

\* Mutant: the modified copy saved back.
FileAfterProjection_saved(file, copy) ==
    IF copy = <<>> THEN file ELSE File(json_dump(copy))

\* get_history_of_order never calls save_history_to_file: the file it
\* leaves behind is the file it found, whatever happened to the copy.
FileAfterProjection(file, copy) == file

\* ------------------------------------------------------- documents
MaxOrders == 2

\* A mapping is the sequence of its (key, document) items in key order, a
\* sequence the sequence of its elements.
Item(k, d) == [k |-> k, d |-> d]
Dict(items) == [type |-> "dict", v |-> items]
List(elems) == [type |-> "list", v |-> elems]

IsDict(x) == x.type = "dict"
IsList(x) == x.type = "list"

\* Deep structural equality (==).
SameDoc(a, b) == a.type = b.type /\ a = b

HasKey(dict, k) == \E i \in 1..Len(dict.v) : dict.v[i].k = k
ValueOf(dict, k) ==
    dict.v[CHOOSE i \in 1..Len(dict.v) : dict.v[i].k = k].d

\* str(i) of a list position.
Digit(i) == <<"0", "1", "2", "3", "4", "5", "6", "7", "8", "9">>[i + 1]
IntStr(i) == IF i < 10 THEN <<Digit(i)>> ELSE <<Digit(i \div 10), Digit(i % 10)>>

RECURSIVE DiffValue(_, _, _)
RECURSIVE DiffOldKeys(_, _, _, _)
RECURSIVE DiffNewKeys(_, _, _, _)
RECURSIVE DiffPositions(_, _, _, _)

\* Mutant: a value of another type descended into as if it were empty.
DiffValue_descend(old, new, path) ==
    IF IsDict(old) \/ IsDict(new)
    THEN DiffOldKeys(IF IsDict(old) THEN old ELSE Dict(<<>>),
                     IF IsDict(new) THEN new ELSE Dict(<<>>),
                     path \o <<".">>, 1)
         \o DiffNewKeys(IF IsDict(old) THEN old ELSE Dict(<<>>),
                        IF IsDict(new) THEN new ELSE Dict(<<>>),
                        path \o <<".">>, 1)
    ELSE IF IsList(old) /\ IsList(new)
    THEN DiffPositions(old, new, path \o <<".">>, 1)
    ELSE IF SameDoc(old, new) THEN <<>>
    ELSE <<Change("changed", path, new, old)>>

\* The values found at one path in old and new: two mappings or two
\* sequences are descended into, anything else is compared as a whole.
DiffValue(old, new, path) ==
    IF IsDict(old) /\ IsDict(new)
    THEN DiffOldKeys(old, new, path \o <<".">>, 1)
         \o DiffNewKeys(old, new, path \o <<".">>, 1)
    ELSE IF IsList(old) /\ IsList(new)
    THEN DiffPositions(old, new, path \o <<".">>, 1)
    ELSE IF SameDoc(old, new) THEN <<>>
    ELSE <<Change("changed", path, new, old)>>

\* The keys of old, in old's order, from item i on.
DiffOldKeys(old, new, prefix, i) ==
    IF i > Len(old.v) THEN <<>>
    ELSE LET k == old.v[i].k
         IN  (IF HasKey(new, k)
              THEN DiffValue(old.v[i].d, ValueOf(new, k), prefix \o k)
              ELSE <<Change("removed", prefix \o k, Absent, old.v[i].d)>>)
             \o DiffOldKeys(old, new, prefix, i + 1)

\* Mutant: the keys only in new, newest first.
RECURSIVE DiffNewKeys_reversed(_, _, _, _)
DiffNewKeys_reversed(old, new, prefix, i) ==
    IF i > Len(new.v) THEN <<>>
    ELSE DiffNewKeys_reversed(old, new, prefix, i + 1)
         \o (IF HasKey(old, new.v[i].k) THEN <<>>
             ELSE <<Change("added", prefix \o new.v[i].k, new.v[i].d, Absent)>>)

\* The keys only in new, in new's order, from item i on.
DiffNewKeys(old, new, prefix, i) ==
    IF i > Len(new.v) THEN <<>>
    ELSE (IF HasKey(old, new.v[i].k) THEN <<>>
          ELSE <<Change("added", prefix \o new.v[i].k, new.v[i].d, Absent)>>)
         \o DiffNewKeys(old, new, prefix, i + 1)

\* The positions of two sequences in ascending order, from position i on.
DiffPositions(old, new, prefix, i) ==
    IF i > Len(old.v) /\ i > Len(new.v) THEN <<>>
    ELSE (IF i <= Len(old.v) /\ i <= Len(new.v)
          THEN DiffValue(old.v[i], new.v[i], prefix \o IntStr(i - 1))
          ELSE IF i <= Len(new.v)
          THEN <<Change("added", prefix \o IntStr(i - 1), new.v[i], Absent)>>
          ELSE <<Change("removed", prefix \o IntStr(i - 1), Absent, old.v[i])>>)
         \o DiffPositions(old, new, prefix, i + 1)

\* compare_dicts(old, new, path): path is the prefix of every key.
compare_dicts(old, new, path) ==
    IF IsDict(old) /\ IsDict(new)
    THEN DiffOldKeys(old, new, path, 1) \o DiffNewKeys(old, new, path, 1)
    ELSE IF IsList(old) /\ IsList(new)
    THEN DiffPositions(old, new, path, 1)
    ELSE IF SameDoc(old, new) THEN <<>>
    ELSE <<Change("changed", path, new, old)>>

\* Mutant: the last position of new_orders taken as missing.
RECURSIVE CompareOldOrders_short(_, _, _)
CompareOldOrders_short(old_orders, new_orders, i) ==
    IF i > Len(old_orders) THEN <<>>
    ELSE (IF i < Len(new_orders)
          THEN compare_dicts(old_orders[i], new_orders[i],
                             IntStr(i - 1) \o <<".">>)
          ELSE <<Change("removed", IntStr(i - 1), Absent, Absent)>>)
         \o CompareOldOrders_short(old_orders, new_orders, i + 1)

\* for i, old_order in enumerate(old_orders), from position i (1-based) on.
RECURSIVE CompareOldOrders(_, _, _)
CompareOldOrders(old_orders, new_orders, i) ==
    IF i > Len(old_orders) THEN <<>>
    ELSE (IF i <= Len(new_orders)
          THEN compare_dicts(old_orders[i], new_orders[i],
                             IntStr(i - 1) \o <<".">>)
          ELSE <<Change("removed", IntStr(i - 1), Absent, Absent)>>)
         \o CompareOldOrders(old_orders, new_orders, i + 1)

\* for i in range(len(old_orders), len(new_orders))
AddedOrders(old_orders, new_orders) ==
    [j \in 1..(IF Len(new_orders) > Len(old_orders)
               THEN Len(new_orders) - Len(old_orders) ELSE 0) |->
        Change("added", IntStr(Len(old_orders) + j - 1), Absent, Absent)]

\* Mutant: the second loop starts one position early.
compare_orders_early(old_orders, new_orders) ==
    CompareOldOrders(old_orders, new_orders, 1)
    \o (IF old_orders # <<>> /\ Len(new_orders) >= Len(old_orders)
        THEN <<Change("added", IntStr(Len(old_orders) - 1), Absent, Absent)>>
        ELSE <<>>)
    \o AddedOrders(old_orders, new_orders)

compare_orders(old_orders, new_orders) ==
    CompareOldOrders(old_orders, new_orders, 1)
    \o AddedOrders(old_orders, new_orders)

\* Documents the comparisons are tried on.
k_status == <<"s", "t", "a", "t", "u", "s">>
k_vin == <<"v", "i", "n">>
k_v == <<"v">>
k_code == <<"c", "o", "d", "e">>

D_A == Dict(<<Item(k_status, Str("A"))>>)
D_B == Dict(<<Item(k_status, Str("B")), Item(k_vin, Str("X"))>>)
D_V1 == Dict(<<Item(k_v, Num("1"))>>)
D_V2 == Dict(<<Item(k_v, Num("2"))>>)
D_Nested == Dict(<<Item(k_vin, Null),
                   Item(k_status, Dict(<<Item(k_code, Str("A"))>>))>>)
D_Nested2 == Dict(<<Item(k_status, Dict(<<Item(k_code, Str("B")),
                                         Item(k_v, Dict(<<>>))>>))>>)
D_List == Dict(<<Item(k_status, List(<<Str("A"), Str("B")>>))>>)
D_List2 == Dict(<<Item(k_status, List(<<Str("A")>>)), Item(k_v, Num("1"))>>)

Docs == { D_A, D_B, D_V1, D_V2, D_Nested, D_Nested2, D_List, D_List2,
          Str("A"), List(<<D_A, Str("A")>>), List(<<D_B>>) }

OrderDocs == { D_A, D_B, D_V1, D_V2 }

RECURSIVE SeqsUpTo(_, _)
SeqsUpTo(S, n) ==
    IF n = 0 THEN { <<>> }
    ELSE SeqsUpTo(S, n - 1)
         \cup { Append(q, x) : q \in SeqsUpTo(S, n - 1), x \in S }

OrderLists == SeqsUpTo(OrderDocs, MaxOrders)

\* ------------------------------------------------------- state
VARIABLES
    historyFile,    \* HISTORY_FILE on disk: [exists, bytes]
    pc,             \* position of the polling run in its append
    history,        \* the run's local 'history' list
    today,          \* TODAY of the run
    differences,    \* the run's local 'differences'
    before,         \* the file as the run found it
    started,        \* number of appends begun so far
    query,          \* the read call made last and its flags
    loaded,         \* return value of load_history_from_file
    changes,        \* return value of get_history_of_order
    origin,         \* positions (entry, change) the returned changes came from
    raised,         \* exception that left the last call, "none" if none
    appends,        \* the (timestamp, changes) of every completed append
    tampered,       \* something else than the program wrote the file
    crashed,        \* a run died inside an append
    cmp,            \* the comparison made last: function and arguments
    other,          \* a second polling run on the same files
    retry,          \* the request_with_retry call in progress
    mig,            \* the files the data-folder migration works on
    runner,         \* the migration runner and its applied file
    sched,          \* the scheduler loop of the entry point
    poll,           \* a polling run and the cached orders file
    coord           \* the coordinator's latest update

vars == <<historyFile, pc, history, today, differences, before, started,
          query, loaded, changes, origin, raised, appends, tampered, crashed,
          cmp, other, retry, mig, runner, sched, poll, coord>>

extVars == <<mig, runner, sched, poll, coord>>

auxVars == <<cmp, other, retry>>

NoCmp == [fn |-> "none", old |-> <<>>, new |-> <<>>]

\* 'seen' is the number of appends completed when the run loaded the file.
OtherIdle ==
    [pc |-> "idle", history |-> <<>>, today |-> "", differences |-> <<>>,
     seen |-> 0]

RetryIdle ==
    [pc |-> "idle", max_retries |-> 0, exit_on_error |-> FALSE,
     attempt |-> 0, status |-> 0, returned |-> "nothing",
     exc |-> "none", sleeps |-> <<>>, requests |-> 0, outcomes |-> <<>>]

MigIdle == [pc |-> "idle"]
\* The runner between two invocations, before the first one; 'file' is
\* MIGRATIONS_APPLIED_FILE.
RunnerIdle ==
    [pc |-> "idle", dir |-> TRUE,
     file |-> [state |-> "missing", names |-> {}],
     applied |-> {}, start |-> {}, at |-> 1, invocations |-> 0,
     last |-> [name |-> "", outcome |-> "none"], succeeded |-> {}]
SchedIdle == [pc |-> "idle", running |-> TRUE]
PollIdle == [pc |-> "idle"]
\* The coordinator before its first refresh, no platform set up.
CoordIdle ==
    [pc |-> "unloaded", ordersFile |-> [exists |-> FALSE, orders |-> <<>>],
     orders |-> <<>>, changes |-> <<>>, sensors |-> {}, updates |-> 0,
     last_update_success |-> TRUE]

AuxIdle ==
    /\ cmp = NoCmp /\ other = OtherIdle /\ retry = RetryIdle
    /\ mig = MigIdle /\ runner = RunnerIdle /\ sched = SchedIdle
    /\ poll = PollIdle /\ coord = CoordIdle

writerVars == <<pc, history, today, differences, before, started, appends>>

NoQuery ==
    [fn |-> "none", order_id |-> <<>>, ALL_KEYS_MODE |-> FALSE,
     DETAILS_MODE |-> FALSE, SHARE_MODE |-> FALSE]

LoadQuery == [NoQuery EXCEPT !.fn = "load_history_from_file"]

ProjectQuery(order_id, all, details, share) ==
    [fn |-> "get_history_of_order", order_id |-> order_id,
     ALL_KEYS_MODE |-> all, DETAILS_MODE |-> details, SHARE_MODE |-> share]

callVars == <<query, loaded, changes, origin>>

\* No read call is between its return and its caller going on.
NoCall == query.fn = "none"

\* Contents written to the log path by something else than the program.
ArbitraryBytes ==
    { <<JUNK>>, <<BADUTF8>>, <<LB, JUNK, RB>> }

Init ==
    /\ historyFile \in {NoFile, File(<<>>), File(json_dump(<<>>))}
    /\ pc = "idle"
    /\ history = <<>>
    /\ today = ""
    /\ differences = <<>>
    /\ before = historyFile
    /\ started = 0
    /\ query = NoQuery
    /\ loaded = <<>>
    /\ changes = <<>>
    /\ origin = <<>>
    /\ raised = "none"
    /\ appends = <<>>
    /\ tampered = FALSE
    /\ crashed = FALSE
    /\ AuxIdle

\* ------------------------------------------------------- the append
\* history = load_history_from_file(); history.append({...})
BeginAppend(ts, diffs) ==
    /\ NoCall
    /\ pc = "idle"
    /\ started < MaxAppends
    /\ started' = started + 1
    /\ LET r == load_history_from_file(historyFile)
       IN  /\ raised' = r.exc
           /\ IF r.exc = "none"
              THEN /\ history' = history_append(r.val, ts, diffs)
                   /\ pc' = "save"
              ELSE /\ history' = <<>>
                   /\ pc' = "idle"
    /\ today' = ts
    /\ differences' = diffs
    /\ before' = historyFile
    /\ UNCHANGED auxVars
    /\ UNCHANGED extVars
    /\ UNCHANGED <<historyFile, appends, callVars, tampered, crashed>>

\* save_history_to_file: open(HISTORY_FILE, 'w') creates or truncates.
OpenForWrite ==
    /\ NoCall
    /\ pc = "save"
    /\ historyFile' = File(<<>>)
    /\ pc' = "write"
    /\ UNCHANGED auxVars
    /\ UNCHANGED extVars
    /\ UNCHANGED <<history, today, differences, before, started, raised,
                   appends, callVars, tampered, crashed>>

\* json.dump(history, f): the text reaches the file piece by piece; the
\* call returns, and the run ends with its locals, after the last piece.
WriteChunk ==
    /\ NoCall
    /\ pc = "write"
    /\ LET text == json_dump(history)
           n == Len(historyFile.bytes)
       IN  /\ historyFile' = File(Append(historyFile.bytes, text[n + 1]))
           /\ IF n + 1 = Len(text)
              THEN /\ pc' = "idle"
                   /\ appends' = Append(appends,
                                        HistoryEntry(today, differences))
                   /\ history' = <<>>
                   /\ today' = ""
                   /\ differences' = <<>>
                   /\ before' = historyFile'
              ELSE UNCHANGED <<pc, appends, history, today, differences,
                               before>>
    /\ UNCHANGED auxVars
    /\ UNCHANGED extVars
    /\ UNCHANGED <<started, raised, callVars, tampered, crashed>>

\* The run dies (kill, power loss, disk full) between two of its steps.
Crash ==
    /\ NoCall
    /\ pc \in {"save", "write"}
    /\ pc' = "idle"
    /\ crashed' = TRUE
    /\ UNCHANGED auxVars
    /\ UNCHANGED extVars
    /\ UNCHANGED <<historyFile, history, today, differences, before, started,
                   raised, appends, callVars, tampered>>

\* Mutant: the error of the write caught and dropped.
RaisedBySave_swallowed(err) == "none"

\* save_history_to_file has no handler around open and json.dump, and main
\* has none around the call: the error leaves both as it was raised.
RaisedBySave(err) == err

\* mkdir, open or a write of json.dump fails (permission denied, disk full):
\* the run ends there, the file stays as the failed step left it.
WriteFails ==
    /\ NoCall
    /\ pc \in {"save", "write"}
    /\ pc' = "failed"
    /\ raised' = RaisedBySave("OSError")
    /\ crashed' = TRUE
    /\ UNCHANGED auxVars
    /\ UNCHANGED extVars
    /\ UNCHANGED <<historyFile, history, today, differences, before, started,
                   appends, callVars, tampered>>

\* ------------------------------------------------------- the reads
LoadHistoryFromFile ==
    /\ NoCall
    /\ LET r == load_history_from_file(historyFile)
       IN  /\ loaded' = r.val
           /\ raised' = r.exc
    /\ query' = LoadQuery
    /\ changes' = <<>>
    /\ origin' = <<>>
    /\ UNCHANGED auxVars
    /\ UNCHANGED extVars
    /\ UNCHANGED <<historyFile, writerVars, tampered, crashed>>

\* entry['changes'] of an entry that has no such key raises KeyError.
EntryLookupError(loadedHistory) ==
    IF \E e \in 1..Len(loadedHistory) : "changes" \notin DOMAIN loadedHistory[e]
    THEN "KeyError" ELSE "none"

GetHistoryOfOrder(order_id, all, details, share) ==
    LET q == ProjectQuery(order_id, all, details, share)
        r == load_history_from_file(historyFile)
        exc == IF r.exc # "none" THEN r.exc ELSE EntryLookupError(r.val)
        emitted == IF exc = "none" THEN ProjectLoop(r.val, q) ELSE <<>>
        copy == IF exc = "none" THEN MutatedCopy(r.val, emitted) ELSE <<>>
    IN  /\ NoCall
        /\ query' = q
        /\ raised' = exc
        /\ loaded' = <<>>
        /\ changes' = [i \in 1..Len(emitted) |-> emitted[i].change]
        /\ origin' = [i \in 1..Len(emitted) |-> <<emitted[i].e, emitted[i].c>>]
        /\ historyFile' = FileAfterProjection(historyFile, copy)
        /\ UNCHANGED auxVars
        /\ UNCHANGED extVars
        /\ UNCHANGED <<writerVars, tampered, crashed>>

\* The caller of a read call goes on; the returned value is gone.
Return ==
    /\ ~NoCall
    /\ query' = NoQuery
    /\ loaded' = <<>>
    /\ changes' = <<>>
    /\ origin' = <<>>
    /\ raised' = "none"
    /\ UNCHANGED auxVars
    /\ UNCHANGED extVars
    /\ UNCHANGED <<historyFile, writerVars, tampered, crashed>>

\* ------------------------------------------------------- the environment
WriteArbitraryBytes(bytes) ==
    /\ NoCall
    /\ pc = "idle"
    /\ ~tampered
    /\ historyFile' = File(bytes)
    /\ tampered' = TRUE
    /\ UNCHANGED auxVars
    /\ UNCHANGED extVars
    /\ UNCHANGED <<writerVars, callVars, raised, crashed>>

Next ==
    \/ \E ts \in Timestamps, diffs \in ChangeLists : BeginAppend(ts, diffs)
    \/ OpenForWrite
    \/ WriteChunk
    \/ Crash
    \/ WriteFails
    \/ LoadHistoryFromFile
    \/ \E order_id \in OrderIds, all \in BOOLEAN, details \in BOOLEAN,
          share \in BOOLEAN : GetHistoryOfOrder(order_id, all, details, share)
    \/ Return
    \/ \E bytes \in ArbitraryBytes : WriteArbitraryBytes(bytes)

Spec == Init /\ [][Next]_vars

\* ------------------------------------------------------- reads of a found file
\* An entry as a JSON object that has a timestamp but no 'changes'.
EntryWithoutChanges == [timestamp |-> "2024-01-01"]

\* Text files the reads can find at the log path: missing, empty, not
\* JSON, a JSON array whose entry is not well-formed, and a good log.
FoundFiles ==
    { NoFile, File(<<>>), File(<<JUNK>>), File(<<LB>>), File(<<LB, JUNK, RB>>),
      File(<<LB, EntryChunk(EntryWithoutChanges), RB>>),
      File(json_dump(<<HistoryEntry("2024-01-01", <<R_ab, R_ac>>)>>)) }

InitRead ==
    /\ historyFile \in FoundFiles
    /\ pc = "idle"
    /\ history = <<>>
    /\ today = ""
    /\ differences = <<>>
    /\ before = historyFile
    /\ started = 0
    /\ query = NoQuery
    /\ loaded = <<>>
    /\ changes = <<>>
    /\ origin = <<>>
    /\ raised = "none"
    /\ appends = <<>>
    /\ tampered = TRUE
    /\ crashed = FALSE
    /\ AuxIdle

NextRead ==
    \/ LoadHistoryFromFile
    \/ \E order_id \in OrderIds, all \in BOOLEAN, details \in BOOLEAN,
          share \in BOOLEAN : GetHistoryOfOrder(order_id, all, details, share)
    \/ Return

SpecRead == InitRead /\ [][NextRead]_vars

\* ------------------------------------------------------- one polling run
\* differences = compare_orders(old_orders, new_orders)
CompareOrders(old_orders, new_orders) ==
    /\ NoCall
    /\ pc = "idle"
    /\ started = 0
    /\ cmp = NoCmp
    /\ cmp' = [fn |-> "compare_orders", old |-> old_orders, new |-> new_orders]
    /\ differences' = compare_orders(old_orders, new_orders)
    /\ UNCHANGED <<historyFile, pc, history, today, before, started, appends,
                   callVars, raised, tampered, crashed, other, retry>>
    /\ UNCHANGED extVars

\* differences = compare_dicts(old, new), the path left at its default ''.
CompareDicts(old, new) ==
    /\ NoCall
    /\ pc = "idle"
    /\ started = 0
    /\ cmp = NoCmp
    /\ cmp' = [fn |-> "compare_dicts", old |-> old, new |-> new]
    /\ differences' = compare_dicts(old, new, <<>>)
    /\ UNCHANGED <<historyFile, pc, history, today, before, started, appends,
                   callVars, raised, tampered, crashed, other, retry>>
    /\ UNCHANGED extVars

\* if differences: ... history.append({'timestamp': TODAY, 'changes':
\* differences}); save_history_to_file(history)
AppendDifferences(ts) ==
    /\ cmp # NoCmp
    /\ differences # <<>>
    /\ BeginAppend(ts, differences)

NextCompare ==
    \/ /\ cmp = NoCmp
       /\ \E old_orders \in OrderLists, new_orders \in OrderLists :
             CompareOrders(old_orders, new_orders)
    \/ /\ cmp = NoCmp
       /\ \E old \in Docs, new \in Docs : CompareDicts(old, new)
    \/ \E ts \in Timestamps : AppendDifferences(ts)
    \/ OpenForWrite
    \/ WriteChunk
    \/ LoadHistoryFromFile
    \/ Return

SpecCompare == Init /\ [][NextCompare]_vars

\* ------------------------------------------------------- two writers
\* Mutant: the file read again and the new entry added to what it holds now.
save_history_to_file_merged(hist, file) ==
    File(json_dump(Append(load_history_from_file(file).val, hist[Len(hist)])))

\* save_history_to_file(history), from open to close: the file holds the
\* text of the list it was given, whatever it held before.
save_history_to_file(hist, file) == File(json_dump(hist))

\* The second run: history = load_history_from_file(); history.append(...)
OtherBegin(ts, diffs) ==
    /\ NoCall
    /\ other.pc = "idle"
    /\ LET r == load_history_from_file(historyFile)
       IN  other' = IF r.exc = "none"
                    THEN [pc |-> "save",
                          history |-> history_append(r.val, ts, diffs),
                          today |-> ts, differences |-> diffs,
                          seen |-> Len(appends)]
                    ELSE [other EXCEPT !.pc = "raised"]
    /\ UNCHANGED <<historyFile, writerVars, callVars, raised, tampered,
                   crashed, cmp, retry>>
    /\ UNCHANGED extVars

\* The second run: save_history_to_file(history), at a moment the first run
\* is not inside its own write.
OtherSave ==
    /\ NoCall
    /\ other.pc = "save"
    /\ pc # "write"
    /\ historyFile' = save_history_to_file(other.history, historyFile)
    /\ appends' = Append(appends, HistoryEntry(other.today, other.differences))
    /\ other' = [other EXCEPT !.pc = "done"]
    /\ before' = IF pc = "idle" THEN historyFile' ELSE before
    /\ UNCHANGED <<pc, history, today, differences, started, callVars,
                   raised, tampered, crashed, cmp, retry>>
    /\ UNCHANGED extVars

NextRace ==
    \/ \E ts \in Timestamps, diffs \in ChangeLists : BeginAppend(ts, diffs)
    \/ OpenForWrite
    \/ WriteChunk
    \/ \E ts \in Timestamps, diffs \in ChangeLists : OtherBegin(ts, diffs)
    \/ OtherSave

SpecRace == Init /\ [][NextRace]_vars

\* ------------------------------------------------------- request_with_retry
MaxRetries == 3

ServerErrorFrom == 500
ServerBackoffBase == 5
NetworkBackoffBase == 2

\* Status codes a server answers with.
StatusCodes == {200, 404, 500, 503}

\* response.raise_for_status(): HTTPError for a 4xx or 5xx status.
raise_for_status(code) ==
    IF code >= 400 /\ code < 600 THEN "HTTPError" ELSE "none"

\* exit_with_status(text): prints the message and terminates the program.
exit_with_status(r) == [r EXCEPT !.pc = "exited"]

\* if exit_on_error: exit_with_status(...) else: raise RuntimeError(...)
GiveUp(r) ==
    IF r.exit_on_error THEN exit_with_status(r)
    ELSE [r EXCEPT !.pc = "raised", !.exc = "RuntimeError"]

\* time.sleep(base ** attempt), then the next turn of the loop.
SleepAndRetry(r, base) ==
    [r EXCEPT !.sleeps = Append(@, base ^ r.attempt), !.attempt = @ + 1]

\* Mutant: the last attempt sleeps and leaves the loop like the others.
AfterServerError_fallthrough(r) == SleepAndRetry(r, ServerBackoffBase)

\* except Exception (raise_for_status failed), status_code >= 500
AfterServerError(r) ==
    IF r.attempt = r.max_retries - 1 THEN GiveUp(r)
    ELSE SleepAndRetry(r, ServerBackoffBase)

\* except requests.exceptions.RequestException
AfterRequestException(r) ==
    IF r.attempt = r.max_retries - 1 THEN GiveUp(r)
    ELSE SleepAndRetry(r, NetworkBackoffBase)

\* Mutant: every error status handled as a server error.
OneAttempt_retryAll(r, answered, code) ==
    LET q == [r EXCEPT !.requests = @ + 1,
                       !.outcomes = Append(@, IF answered THEN code ELSE 0)]
    IN  IF ~answered THEN AfterRequestException(q)
        ELSE IF raise_for_status(code) = "none"
        THEN [q EXCEPT !.pc = "returned", !.returned = "response",
                       !.status = code]
        ELSE AfterServerError(q)

\* One turn of 'for attempt in range(max_retries)': the request is answered
\* with a status code, or raises a RequestException ('outcomes' keeps the
\* codes, 0 for a request that raised).
OneAttempt(r, answered, code) ==
    LET q == [r EXCEPT !.requests = @ + 1,
                       !.outcomes = Append(@, IF answered THEN code ELSE 0)]
    IN  IF ~answered THEN AfterRequestException(q)
        ELSE IF raise_for_status(code) = "none"
        THEN [q EXCEPT !.pc = "returned", !.returned = "response",
                       !.status = code]
        ELSE IF code >= ServerErrorFrom THEN AfterServerError(q)
        ELSE GiveUp(q)

\* The loop is over when range(max_retries) is used up: return None.
LoopHead(r) ==
    IF r.attempt < r.max_retries THEN r
    ELSE [r EXCEPT !.pc = "returned", !.returned = "None"]

RequestWithRetry(max_retries, exit_on_error) ==
    /\ retry.pc = "idle"
    /\ retry' = LoopHead([RetryIdle EXCEPT !.pc = "loop",
                                           !.max_retries = max_retries,
                                           !.exit_on_error = exit_on_error])
    /\ UNCHANGED <<historyFile, writerVars, callVars, raised, tampered,
                   crashed, cmp, other>>
    /\ UNCHANGED extVars

Attempt(answered, code) ==
    /\ retry.pc = "loop"
    /\ retry' = LoopHead(OneAttempt(retry, answered, code))
    /\ UNCHANGED <<historyFile, writerVars, callVars, raised, tampered,
                   crashed, cmp, other>>
    /\ UNCHANGED extVars

\* retrieve_orders: if response is None: raise RuntimeError(...)
RetrieveOrdersGoesOn ==
    /\ retry.pc = "returned"
    /\ retry' = IF retry.returned = "None"
                THEN [retry EXCEPT !.pc = "raised", !.exc = "RuntimeError",
                                   !.returned = "nothing"]
                ELSE [retry EXCEPT !.pc = "done"]
    /\ UNCHANGED <<historyFile, writerVars, callVars, raised, tampered,
                   crashed, cmp, other>>
    /\ UNCHANGED extVars

NextRetry ==
    \/ \E max_retries \in 0..MaxRetries, exit_on_error \in BOOLEAN :
          RequestWithRetry(max_retries, exit_on_error)
    \/ \E answered \in BOOLEAN, code \in StatusCodes : Attempt(answered, code)
    \/ RetrieveOrdersGoesOn

SpecRetry == Init /\ [][NextRetry]_vars

\* ------------------------------------------------------- data-folder migration
MaxRuns == 2

\* All variables of the history log and of the calls on it at rest.
HistoryIdle ==
    /\ historyFile = NoFile
    /\ pc = "idle"
    /\ history = <<>>
    /\ today = ""
    /\ differences = <<>>
    /\ before = historyFile
    /\ started = 0
    /\ query = NoQuery
    /\ loaded = <<>>
    /\ changes = <<>>
    /\ origin = <<>>
    /\ raised = "none"
    /\ appends = <<>>
    /\ tampered = FALSE
    /\ crashed = FALSE

\* legacy_map: the names with a target path, and the names with target "".
MovedNames == {"tesla_orders.json", "tesla_locations.json"}
DeletedNames == {"update_check.py"}
LegacyNames == MovedNames \cup DeletedNames

\* legacy_map.items() in insertion order.
LegacyOrder == <<"tesla_orders.json", "tesla_locations.json", "update_check.py">>

\* A path holds no file, or a file with its st_mtime and the place it was
\* first found at.
NoPath == [mtime |-> 0, from |-> "none"]
Mtimes == 1..2
FilesAt(place) == { [mtime |-> m, from |-> place] : m \in Mtimes }

\* root: BASE_DIR / name; dst: legacy_map[name]; backup: backup_dir /
\* (name + ".old").
FileSystems ==
    [root : [LegacyNames -> FilesAt("root") \cup {NoPath}],
     dst : [MovedNames -> FilesAt("dst") \cup {NoPath}],
     backup : [MovedNames -> {[mtime |-> 1, from |-> "backup"], NoPath}]]

Exists(f) == f # NoPath

\* Mutant: a legacy file older than its target is left where it is.
SafeMoveWithBackup_keepOlder(fs, name) ==
    IF name \in DeletedNames
    THEN [fs EXCEPT !.root[name] = NoPath]
    ELSE IF Exists(fs.dst[name])
    THEN IF fs.root[name].mtime > fs.dst[name].mtime
         THEN [fs EXCEPT !.backup[name] = fs.dst[name],
                         !.dst[name] = fs.root[name],
                         !.root[name] = NoPath]
         ELSE fs
    ELSE [fs EXCEPT !.dst[name] = fs.root[name], !.root[name] = NoPath]

\* _safe_move_with_backup(src, dst, backup_dir); shutil.move renames, so the
\* file keeps its st_mtime and replaces a file already at the destination.
SafeMoveWithBackup(fs, name) ==
    IF name \in DeletedNames
    THEN [fs EXCEPT !.root[name] = NoPath]
    ELSE IF Exists(fs.dst[name])
    THEN IF fs.root[name].mtime > fs.dst[name].mtime
         THEN [fs EXCEPT !.backup[name] = fs.dst[name],
                         !.dst[name] = fs.root[name],
                         !.root[name] = NoPath]
         ELSE [fs EXCEPT !.backup[name] = fs.root[name],
                         !.root[name] = NoPath]
    ELSE [fs EXCEPT !.dst[name] = fs.root[name], !.root[name] = NoPath]

\* for legacy_name, dst in legacy_map.items(): if src.exists(): ...
RECURSIVE MigrateFrom(_, _)
MigrateFrom(fs, i) ==
    IF i > Len(LegacyOrder) THEN fs
    ELSE LET name == LegacyOrder[i]
         IN  MigrateFrom(IF Exists(fs.root[name])
                         THEN SafeMoveWithBackup(fs, name) ELSE fs,
                         i + 1)

\* run()
RunDatafolders(fs) == MigrateFrom(fs, 1)

InitMigrate ==
    /\ HistoryIdle
    /\ cmp = NoCmp /\ other = OtherIdle /\ retry = RetryIdle
    /\ runner = RunnerIdle /\ sched = SchedIdle
    /\ poll = PollIdle /\ coord = CoordIdle
    /\ \E fs \in FileSystems :
          mig = [pc |-> "ready", fs |-> fs, runs |-> 0, first |-> fs]

\* One execution of run(), from its first statement to its last.
RunMigration ==
    /\ mig.pc = "ready"
    /\ mig.runs < MaxRuns
    /\ mig' = [mig EXCEPT !.fs = RunDatafolders(mig.fs),
                          !.runs = @ + 1,
                          !.first = IF mig.runs = 0
                                    THEN RunDatafolders(mig.fs) ELSE @]
    /\ UNCHANGED <<historyFile, writerVars, callVars, raised, tampered,
                   crashed, auxVars, runner, sched, poll, coord>>

NextMigrate == RunMigration

SpecMigrate == InitMigrate /\ [][NextMigrate]_vars

\* ------------------------------------------------------- scheduler
MaxChecks == 3

\* The ways check_order_status() ends: it returns, it raises an Exception,
\* or an error is reported by exit_with_status, which ends the program by
\* SystemExit.
CheckOutcomes == {"returns", "Exception", "exit_with_status"}

\* The loop is over: left by 'while running', by an exception out of main,
\* or by SystemExit.
SchedOver == {"done", "failed", "exited"}

Counted(n) == IF n < MaxChecks THEN n + 1 ELSE n

\* main() after signal.signal(...) for SIGINT and SIGTERM, before line 63.
SchedStart ==
    [pc |-> "start", running |-> TRUE, signalAt |-> "none", checks |-> 0,
     logged |-> 0, outcome |-> "none"]

InitSched ==
    /\ HistoryIdle
    /\ cmp = NoCmp /\ other = OtherIdle /\ retry = RetryIdle
    /\ mig = MigIdle /\ runner = RunnerIdle
    /\ poll = PollIdle /\ coord = CoordIdle
    /\ sched = SchedStart

SchedFrame ==
    UNCHANGED <<historyFile, writerVars, callVars, raised, tampered, crashed,
                auxVars, mig, runner, poll, coord>>

\* check_order_status()   (the initial check, outside the try)
StartInitialCheck ==
    /\ sched.pc = "start"
    /\ sched' = [sched EXCEPT !.pc = "initial_check",
                              !.checks = Counted(@)]
    /\ SchedFrame

\* The check in progress ends. 'except Exception' catches an Exception of
\* a scheduled check only; SystemExit is no Exception.
AfterCheck(s, outcome) ==
    IF outcome = "returns" THEN [s EXCEPT !.pc = "while", !.outcome = outcome]
    ELSE IF outcome = "exit_with_status"
    THEN [s EXCEPT !.pc = "exited", !.outcome = outcome]
    ELSE IF s.pc = "initial_check"
    THEN [s EXCEPT !.pc = "failed", !.outcome = outcome]
    ELSE [s EXCEPT !.pc = "error_pause", !.outcome = outcome,
                   !.logged = Counted(@)]

CheckEnds(outcome) ==
    /\ sched.pc \in {"initial_check", "scheduled_check"}
    /\ sched' = AfterCheck(sched, outcome)
    /\ SchedFrame

\* while running:
WhileRunning ==
    /\ sched.pc = "while"
    /\ sched' = [sched EXCEPT !.pc = IF sched.running THEN "wait" ELSE "done"]
    /\ SchedFrame

\* time.sleep(7200) returns.
WaitEnds ==
    /\ sched.pc = "wait"
    /\ sched' = [sched EXCEPT !.pc = "if"]
    /\ SchedFrame

\* Mutant: the flag not looked at again after the sleep.
AfterWait_unchecked(s) == [s EXCEPT !.pc = "call"]

\* if running:  # Check again after sleep
AfterWait(s) == [s EXCEPT !.pc = IF s.running THEN "call" ELSE "while"]

IfRunning ==
    /\ sched.pc = "if"
    /\ sched' = AfterWait(sched)
    /\ SchedFrame

\* check_order_status()   (line 72, entered)
StartScheduledCheck ==
    /\ sched.pc = "call"
    /\ sched' = [sched EXCEPT !.pc = "scheduled_check",
                              !.checks = Counted(@)]
    /\ SchedFrame

\* time.sleep(60) returns.
ErrorPauseEnds ==
    /\ sched.pc = "error_pause"
    /\ sched' = [sched EXCEPT !.pc = "while"]
    /\ SchedFrame

\* SIGINT or SIGTERM is delivered: signal_handler sets running = False, and
\* what was interrupted goes on (a sleep for the rest of its time).
Signal ==
    /\ sched.pc \notin SchedOver
    /\ sched' = [sched EXCEPT !.running = FALSE,
                              !.signalAt = IF @ = "none" THEN sched.pc ELSE @]
    /\ SchedFrame

MainSteps ==
    \/ StartInitialCheck
    \/ \E outcome \in CheckOutcomes : CheckEnds(outcome)
    \/ WhileRunning
    \/ WaitEnds
    \/ IfRunning
    \/ StartScheduledCheck
    \/ ErrorPauseEnds

NextSched == MainSteps \/ Signal

SpecSched == InitSched /\ [][NextSched]_vars

\* Every sleep and every check comes to an end.
SpecSchedFair == SpecSched /\ WF_vars(MainSteps)

\* ------------------------------------------------------- polling run
MaxPolls == 2

\* ORDERS_FILE: missing, or the snapshot json.dump wrote.
NoCache == [exists |-> FALSE, orders |-> <<>>]
Cache(orders) == [exists |-> TRUE, orders |-> orders]

\* Snapshots the API answers with and the cache may hold.
Snapshots == { <<>>, <<D_V1>>, <<D_V2>>, <<D_V1, D_V2>> }

\* 'cli' is main of orders.py, 'ha' is async_update_orders of api.py.
Modes == {"cli", "ha"}

\* 'polls' counts the runs started; 'saved' lists, for every snapshot written
\* over the cache after a comparison, the differences that were found.
PollStart ==
    [pc |-> "idle", ordersFile |-> NoCache, old |-> <<>>, new |-> <<>>,
     mode |-> "cli", polls |-> 0, compared |-> FALSE, saved |-> <<>>]

InitPoll ==
    /\ HistoryIdle
    /\ cmp = NoCmp /\ other = OtherIdle /\ retry = RetryIdle
    /\ mig = MigIdle /\ runner = RunnerIdle
    /\ sched = SchedIdle /\ coord = CoordIdle
    /\ \E snapshot \in Snapshots :
          poll \in { PollStart,
                     [PollStart EXCEPT !.ordersFile = Cache(snapshot)] }

\* _load_orders_from_file(): None when the file is missing.
load_orders_from_file(file) == IF file.exists THEN file.orders ELSE <<>>

\* Mutant: the empty answer handled like any other.
EmptyAnswerReturns_never(mode, new_orders) == FALSE

\* main: if not new_orders: ... return   (async_update_orders has no such
\* test)
EmptyAnswerReturns(mode, new_orders) == mode = "cli" /\ new_orders = <<>>

\* Mutant: the result of the comparison not looked at.
ChangesDetected_always(diffs) == TRUE

\* if differences:
ChangesDetected(diffs) == diffs # <<>>

PollFrame ==
    UNCHANGED <<pc, history, before, started, callVars, raised, tampered,
                crashed, auxVars, mig, runner, sched, coord>>

\* A run up to its first write: load the cache, fetch, compare. Without a
\* cached snapshot the first one is saved ('ha'), or saved if the user
\* answers y ('cli').
BeginPoll(mode, new_orders, ts, answer) ==
    LET old_orders == load_orders_from_file(poll.ordersFile)
        run == [poll EXCEPT !.mode = mode, !.old = old_orders,
                            !.new = new_orders, !.polls = @ + 1,
                            !.compared = FALSE]
        diffs == compare_orders(old_orders, new_orders)
    IN  /\ poll.pc = "idle"
        /\ poll.polls < MaxPolls
        /\ today' = ts
        /\ IF EmptyAnswerReturns(mode, new_orders)
           THEN poll' = run /\ differences' = <<>>
           ELSE IF old_orders # <<>>
           THEN /\ differences' = diffs
                /\ poll' = [run EXCEPT !.compared = TRUE,
                                       !.pc = IF ChangesDetected(diffs)
                                              THEN "save_orders" ELSE "idle"]
           ELSE /\ differences' = <<>>
                /\ poll' = IF mode = "ha" \/ answer
                           THEN [run EXCEPT !.ordersFile = Cache(new_orders)]
                           ELSE run
        /\ UNCHANGED <<historyFile, appends>>
        /\ PollFrame

\* _save_orders_to_file(new_orders)
SaveOrders ==
    /\ poll.pc = "save_orders"
    /\ poll' = [poll EXCEPT !.pc = "append",
                            !.ordersFile = Cache(poll.new),
                            !.saved = Append(@, differences)]
    /\ UNCHANGED <<historyFile, today, differences, appends>>
    /\ PollFrame

\* history = load_history_from_file(); history.append({...});
\* save_history_to_file(history)
AppendHistory ==
    LET r == load_history_from_file(historyFile)
        hist == history_append(r.val, today, differences)
    IN  /\ poll.pc = "append"
        /\ historyFile' = save_history_to_file(hist, historyFile)
        /\ appends' = Append(appends, HistoryEntry(today, differences))
        /\ poll' = [poll EXCEPT !.pc = "idle"]
        /\ UNCHANGED <<today, differences>>
        /\ PollFrame

\* The run dies between two of its steps (kill, power loss, an error of
\* the write to come).
PollCrash ==
    /\ poll.pc \in {"save_orders", "append"}
    /\ poll' = [poll EXCEPT !.pc = "idle"]
    /\ UNCHANGED <<historyFile, today, differences, appends>>
    /\ PollFrame

NextPoll ==
    \/ /\ poll.pc = "idle"
       /\ \E mode \in Modes, new_orders \in Snapshots, ts \in Timestamps,
             answer \in BOOLEAN : BeginPoll(mode, new_orders, ts, answer)
    \/ SaveOrders
    \/ AppendHistory
    \/ PollCrash

SpecPoll == InitPoll /\ [][NextPoll]_vars

\* ------------------------------------------------------- binary sensor
\* Order reference numbers the API answers with.
ReferenceNumbers == {"RN1", "RN2"}

\* One element of get_all_orders_data's answer.
OrderData(order_id, full_data) ==
    [order_id |-> order_id, full_data |-> full_data]

\* Answers of async_get_orders: no order, one order, two distinct orders.
OrdersData ==
    { <<>> }
    \cup { <<OrderData(a, d)>> : a \in ReferenceNumbers, d \in {D_V1, D_V2} }
    \cup { <<OrderData(ab[1], d), OrderData(ab[2], e)>> :
              ab \in { x \in ReferenceNumbers \X ReferenceNumbers :
                         x[1] # x[2] },
              d \in {D_V1, D_V2}, e \in {D_V1, D_V2} }

\* new_orders_detailed.append(order_data.get("full_data", {}))
Detailed(orders_data) ==
    [i \in 1..Len(orders_data) |-> orders_data[i].full_data]

InitSensor ==
    /\ HistoryIdle
    /\ cmp = NoCmp /\ other = OtherIdle /\ retry = RetryIdle
    /\ mig = MigIdle /\ runner = RunnerIdle
    /\ sched = SchedIdle /\ poll = PollIdle
    /\ \E snapshot \in Snapshots :
          coord \in { CoordIdle,
                      [CoordIdle EXCEPT !.ordersFile = Cache(snapshot)] }

SensorFrame ==
    UNCHANGED <<pc, history, before, started, callVars, raised, tampered,
                crashed, auxVars, mig, runner, sched, poll>>

\* _async_update_data with async_update_orders answering: the cache is
\* compared with the answer; differences are saved, logged and become the
\* coordinator's changes; without a cache the answer is saved.
Refresh(new_orders_data, ts) ==
    LET old_orders == load_orders_from_file(coord.ordersFile)
        new_orders_detailed == Detailed(new_orders_data)
        diffs == compare_orders(old_orders, new_orders_detailed)
        found == old_orders # <<>> /\ ChangesDetected(diffs)
        hist == history_append(load_history_from_file(historyFile).val,
                               ts, diffs)
    IN  /\ coord.updates < MaxPolls
        /\ coord' = [coord EXCEPT
                !.pc = IF @ = "unloaded" THEN "refreshed" ELSE @,
                !.ordersFile = IF found \/ old_orders = <<>>
                               THEN Cache(new_orders_detailed) ELSE @,
                !.orders = new_orders_data,
                !.changes = IF found THEN diffs ELSE <<>>,
                !.updates = @ + 1,
                !.last_update_success = TRUE]
        /\ IF found
           THEN /\ historyFile' = save_history_to_file(hist, historyFile)
                /\ appends' = Append(appends, HistoryEntry(ts, diffs))
                /\ today' = ts
                /\ differences' = diffs
           ELSE UNCHANGED <<historyFile, appends, today, differences>>
        /\ SensorFrame

\* _async_update_data: except Exception as err: raise UpdateFailed(...);
\* the coordinator keeps the orders and changes it had.
RefreshFails ==
    /\ coord.updates < MaxPolls
    /\ coord' = [coord EXCEPT !.updates = @ + 1,
                              !.last_update_success = FALSE]
    /\ UNCHANGED <<historyFile, appends, today, differences>>
    /\ SensorFrame

\* async_setup_entry: one sensor for every order with an order_id.
SetupEntry ==
    /\ coord.pc = "refreshed"
    /\ coord' = [coord EXCEPT
            !.pc = "running",
            !.sensors = { coord.orders[i].order_id :
                            i \in 1..Len(coord.orders) }]
    /\ UNCHANGED <<historyFile, appends, today, differences>>
    /\ SensorFrame

\* Home Assistant restarts: a new coordinator over the same orders file.
Restart ==
    /\ coord.pc = "running"
    /\ coord.updates < MaxPolls
    /\ coord' = [CoordIdle EXCEPT !.ordersFile = coord.ordersFile,
                                  !.updates = coord.updates]
    /\ UNCHANGED <<historyFile, appends, today, differences>>
    /\ SensorFrame

\* order_index of the first order with this order_id, -1 standing for None
OrderIndex(orders, order_id) ==
    LET at == { i \in 1..Len(orders) : orders[i].order_id = order_id }
    IN  IF at = {} THEN -1
        ELSE (CHOOSE i \in at : \A j \in at : i <= j) - 1

\* TeslaOrderStatusBinarySensor.is_on
is_on(c, order_id) ==
    LET order_index == OrderIndex(c.orders, order_id)
    IN  IF c.changes = <<>> THEN FALSE
        ELSE IF order_index = -1 THEN FALSE
        ELSE \E i \in 1..Len(c.changes) :
                StartsWith(c.changes[i].key, IntStr(order_index) \o <<".">>)

NextSensor ==
    \/ \E new_orders_data \in OrdersData, ts \in Timestamps :
          Refresh(new_orders_data, ts)
    \/ RefreshFails
    \/ SetupEntry
    \/ Restart

SpecSensor == InitSensor /\ [][NextSensor]_vars

\* ------------------------------------------------------- migration runner
\* sorted(MIGRATIONS_DIR.glob("*.py")), by stem.
MigrationFiles == <<"2025-08-30-datafolders", "2025-09-01-b", "2025-09-02-c">>

MigrationNames == { MigrationFiles[i] : i \in 1..Len(MigrationFiles) }

\* MIGRATIONS_APPLIED_FILE is missing, or the list json.dump wrote, or emptied
\* by an open(..., "w") whose write did not follow.
AppliedFile(names) == [state |-> "list", names |-> names]
TruncatedFile == [state |-> "truncated", names |-> {}]

\* _load_applied_migrations(): [] for a missing file and for one json.load
\* cannot parse.
load_applied_migrations(file) ==
    IF file.state = "list" THEN file.names ELSE {}

\* applied.add(name) is the last statement of the try block.
AppliedAfter(applied, name, outcome) ==
    IF outcome = "ok" THEN applied \cup {name} ELSE applied

\* 'succeeded' remembers every migration whose execution raised nothing,
\* in this invocation or an earlier one.
InitRunner ==
    /\ HistoryIdle
    /\ cmp = NoCmp /\ other = OtherIdle /\ retry = RetryIdle
    /\ mig = MigIdle /\ sched = SchedIdle
    /\ poll = PollIdle /\ coord = CoordIdle
    /\ \E dir \in BOOLEAN, names \in SUBSET MigrationNames :
          runner \in
            { [RunnerIdle EXCEPT !.dir = dir],
              [RunnerIdle EXCEPT !.dir = dir, !.file = AppliedFile(names),
                                 !.succeeded = names] }

RunnerFrame ==
    UNCHANGED <<historyFile, writerVars, callVars, raised, tampered,
                crashed, auxVars, mig, sched, poll, coord>>

NoExecution == [name |-> "", outcome |-> "none"]

\* main up to the loop: return without MIGRATIONS_DIR, else load the
\* applied names and list the files.
StartRunner ==
    /\ runner.pc = "idle"
    /\ runner.invocations < MaxRuns
    /\ runner' = [runner EXCEPT
            !.invocations = @ + 1,
            !.pc = IF runner.dir THEN "loop" ELSE "idle",
            !.applied = load_applied_migrations(runner.file),
            !.start = load_applied_migrations(runner.file),
            !.at = 1,
            !.last = NoExecution]
    /\ RunnerFrame

\* if name in applied: continue
SkipApplied ==
    /\ runner.pc = "loop"
    /\ runner.at <= Len(MigrationFiles)
    /\ MigrationFiles[runner.at] \in runner.applied
    /\ runner' = [runner EXCEPT !.at = @ + 1, !.last = NoExecution]
    /\ RunnerFrame

\* The try block of one migration: it runs to its end, or raises an
\* Exception that is printed.
ExecuteMigration(outcome) ==
    LET name == MigrationFiles[runner.at]
    IN  /\ runner.pc = "loop"
        /\ runner.at <= Len(MigrationFiles)
        /\ name \notin runner.applied
        /\ runner' = [runner EXCEPT
                !.applied = AppliedAfter(@, name, outcome),
                !.succeeded = IF outcome = "ok" THEN @ \cup {name} ELSE @,
                !.at = @ + 1,
                !.last = [name |-> name, outcome |-> outcome]]
        /\ RunnerFrame

\* _save_applied_migrations(list(applied))
SaveApplied ==
    /\ runner.pc = "loop"
    /\ runner.at > Len(MigrationFiles)
    /\ runner' = [runner EXCEPT !.pc = "idle",
                                !.file = AppliedFile(runner.applied),
                                !.last = NoExecution]
    /\ RunnerFrame

\* open or json.dump raises OSError, which main lets through: the file is
\* as it was when open failed, empty when the write failed.
SaveAppliedFails(opened) ==
    /\ runner.pc = "loop"
    /\ runner.at > Len(MigrationFiles)
    /\ runner' = [runner EXCEPT
            !.pc = "idle",
            !.file = IF opened THEN TruncatedFile ELSE @,
            !.last = NoExecution]
    /\ RunnerFrame

NextRunner ==
    \/ StartRunner
    \/ SkipApplied
    \/ \E outcome \in {"ok", "Exception"} : ExecuteMigration(outcome)
    \/ SaveApplied
    \/ \E opened \in BOOLEAN : SaveAppliedFails(opened)

SpecRunner == InitRunner /\ [][NextRunner]_vars

\* ------------------------------------------------------- properties
IsPrefix(a, b) == Len(a) <= Len(b) /\ SubSeq(b, 1, Len(a)) = a

\* What load_history_from_file would return now.
PersistedLog == load_history_from_file(historyFile).val

Loading == query.fn = "load_history_from_file"
Projecting == query.fn = "get_history_of_order"

\* No crash and no foreign write so far, and no append under way.
Undisturbed == pc = "idle" /\ ~tampered /\ ~crashed

\* The stored record the i-th returned change was made from.
OriginEntry(i) == PersistedLog[origin[i][1]]
OriginChange(i) == OriginEntry(i).changes[origin[i][2]]
OriginKey(i) == StrippedKey(OriginChange(i).key)

\* The key begins with the segment id: id itself, or id followed by '.'.
HasLeadingSegment(key, id) ==
    /\ \A j \in 1..Len(id) : id[j] # "."
    /\ \/ key = id
       \/ /\ Len(key) > Len(id)
          /\ SubSeq(key, 1, Len(id)) = id
          /\ key[Len(id) + 1] = "."

\* C1: starting from a missing or empty history file, after the appends
\* (t1, C1) and (t2, C2) have completed, load returns exactly these entries
\* in that order with their changes unmodified, also when t1 = t2.
C1_AppendMonotonic ==
    (Loading /\ Undisturbed) => (raised = "none" /\ loaded = appends)

C1_Witness ==
    /\ Loading /\ Undisturbed
    /\ Len(appends) = 2
    /\ appends[1].timestamp = appends[2].timestamp
    /\ appends[1].changes # appends[2].changes
    /\ Len(loaded) = 2

\* C2: an entry that has once been persisted stays in the persisted log at
\* the same position with the same timestamp and changes: whenever no
\* append is under way, the completed appends are a prefix of the log.
C2_AppendOnly ==
    (pc = "idle" /\ ~tampered) => IsPrefix(appends, PersistedLog)

\* C3: load_history_from_file never raises, and returns an empty log when
\* the file is missing or its bytes are not a parseable JSON document.
C3_LoadNeverRaises ==
    Loading =>
        /\ raised = "none"
        /\ (~historyFile.exists \/ json_load(historyFile.bytes).exc # "none")
              => loaded = <<>>

\* C4: after a crash during an append the history file holds the complete
\* old log or the complete new log.
C4_AtomicAppend ==
    (crashed /\ pc = "idle" /\ ~tampered) =>
        PersistedLog \in {load_history_from_file(before).val, history}

\* C5: with SHARE_MODE, whatever ALL_KEYS_MODE, a returned change whose
\* stripped key is an anonymous key has value and old_value null where they
\* were strings and unchanged where they were not.
C5_RedactionAlways ==
    (Projecting /\ query.SHARE_MODE) =>
        \A i \in 1..Len(changes) :
            OriginKey(i) \in DOMAIN HISTORY_TRANSLATIONS_ANONYMOUS =>
                /\ changes[i].value = RedactField(OriginChange(i).value)
                /\ changes[i].old_value = RedactField(OriginChange(i).old_value)

\* C6: without ALL_KEYS_MODE a change of the requested order is returned
\* only if its stripped key has an entry in the table it is translated
\* with, and without DETAILS_MODE only if it is in the short translation
\* table or the anonymous keys; a log holding 0.a.b and 0.a.c yields
\* exactly one change, for a.b.
C6_AllowList ==
    (Projecting /\ ~query.ALL_KEYS_MODE) =>
        /\ \A i \in 1..Len(changes) :
              /\ OriginKey(i) \in DOMAIN HISTORY_TRANSLATIONS_DETAILS
              /\ ~query.DETAILS_MODE =>
                    OriginKey(i) \in DOMAIN HISTORY_TRANSLATIONS
                                     \cup DOMAIN HISTORY_TRANSLATIONS_ANONYMOUS
        /\ (/\ query.order_id = <<"0">>
            /\ raised = "none"
            /\ \A e \in 1..Len(PersistedLog) :
                  PersistedLog[e].changes = <<R_ab, R_ac>>)
              => /\ Len(changes) = Len(PersistedLog)
                 /\ \A i \in 1..Len(changes) :
                       changes[i].key = HISTORY_TRANSLATIONS[k_ab]

C6_Witness ==
    /\ Projecting /\ ~query.ALL_KEYS_MODE /\ ~query.DETAILS_MODE
    /\ query.order_id = <<"0">>
    /\ Len(PersistedLog) = 1
    /\ PersistedLog[1].changes = <<R_ab, R_ac>>
    /\ Len(changes) = 1
    /\ changes[1].key = HISTORY_TRANSLATIONS[k_ab]

\* C7: for every combination of ALL_KEYS_MODE and SHARE_MODE, a returned
\* change whose stripped key has an entry in the translation table carries
\* the label as its key.
C7_TranslationAlways ==
    Projecting =>
        \A i \in 1..Len(changes) :
            OriginKey(i) \in DOMAIN HISTORY_TRANSLATIONS_DETAILS =>
                changes[i].key = HISTORY_TRANSLATIONS_DETAILS[OriginKey(i)]

\* C8: a change is returned only if the leading dot-separated segment of
\* its stored key is string-equal to the order id; changes of other orders
\* are dropped without an error.
C8_EntityFilter ==
    Projecting =>
        /\ \A i \in 1..Len(changes) :
              HasLeadingSegment(OriginChange(i).key, query.order_id)
        /\ ~tampered => raised = "none"

C8_Witness ==
    /\ Projecting /\ query.ALL_KEYS_MODE
    /\ query.order_id = <<"1">>
    /\ Len(PersistedLog) = 1
    /\ PersistedLog[1].changes = <<R_10, R_1ab, R_01, R_1>>
    /\ Len(changes) = 2
    /\ raised = "none"

\* C9: the returned changes are an order-preserving subsequence of the
\* flattened log: entries in append order, then the order inside an entry;
\* nothing is duplicated or re-sorted.
C9_OrderPreserved ==
    Projecting =>
        /\ Len(origin) = Len(changes)
        /\ \A i \in 1..Len(changes) :
              /\ origin[i][1] \in 1..Len(PersistedLog)
              /\ origin[i][2] \in 1..Len(OriginEntry(i).changes)
              /\ changes[i].operation = OriginChange(i).operation
              /\ changes[i].timestamp = OriginEntry(i).timestamp
        /\ \A i, j \in 1..Len(changes) :
              i < j => \/ origin[i][1] < origin[j][1]
                       \/ /\ origin[i][1] = origin[j][1]
                          /\ origin[i][2] < origin[j][2]

C9_Witness ==
    /\ Projecting
    /\ Len(changes) >= 3
    /\ origin[1][1] = 1
    /\ origin[Len(origin)][1] = 2
    /\ PersistedLog[1].timestamp # PersistedLog[2].timestamp

\* C10: get_history_of_order leaves the history file as it found it,
\* whatever it did to the loaded copy.
C10_ProjectionReadOnly ==
    [][query'.fn = "get_history_of_order" => historyFile' = historyFile]_vars

C10_Witness ==
    /\ Projecting
    /\ \E i \in 1..Len(changes) :
          /\ changes[i].key # OriginChange(i).key
          /\ changes[i].value # OriginChange(i).value

\* The file is a read-side anomaly: missing, unparseable, or an array with
\* an entry that has no changes list.
ReadAnomaly ==
    \/ ~historyFile.exists
    \/ json_load(historyFile.bytes).exc # "none"
    \/ EntryLookupError(json_load(historyFile.bytes).val) # "none"

\* C11: for a history file that is a read-side anomaly, load followed by
\* get_history_of_order raises no error and yields an empty result.
C11_ReadAnomalyEmpty ==
    (Projecting /\ ReadAnomaly) => (raised = "none" /\ changes = <<>>)

\* The comparison of the run has returned and 'differences' holds its result.
Compared(fn) == cmp.fn = fn /\ appends = <<>>

Larger(a, b) == IF a > b THEN a ELSE b

\* Positions of the records whose key is the bare entity index i.
EntityRecords(i) ==
    { j \in 1..Len(differences) : differences[j].key = IntStr(i) }

\* The records whose key starts with "i.", in the order they were emitted.
FieldRecords(i) ==
    SelectSeq(differences,
              LAMBDA r : StartsWith(r.key, IntStr(i) \o <<".">>))

\* The entity index a record's key begins with.
EntityIndex(r) ==
    CHOOSE i \in 0..Larger(Len(cmp.old), Len(cmp.new)) :
        KeyParts(r.key)[1] = IntStr(i)

\* C12: for lists of lengths m and n, compare_orders emits exactly one
\* 'removed' record with key "i" for every n <= i < m, exactly one 'added'
\* record with key "i" for every m <= i < n, and every other record is the
\* field-level diff of old[i] and new[i] with its key starting with "i.";
\* the records come in ascending order of the entity index.
C12_EntityDiff ==
    Compared("compare_orders") =>
        LET m == Len(cmp.old)
            n == Len(cmp.new)
        IN  /\ \A i \in 0..(Larger(m, n) - 1) :
                  IF i < m /\ i < n
                  THEN /\ EntityRecords(i) = {}
                       /\ FieldRecords(i) =
                              compare_dicts(cmp.old[i + 1], cmp.new[i + 1],
                                            IntStr(i) \o <<".">>)
                  ELSE /\ Cardinality(EntityRecords(i)) = 1
                       /\ FieldRecords(i) = <<>>
                       /\ \A j \in EntityRecords(i) :
                             differences[j].operation =
                                 IF i < m THEN "removed" ELSE "added"
            /\ \A j \in 1..Len(differences) :
                  \E i \in 0..(Larger(m, n) - 1) :
                      KeyParts(differences[j].key)[1] = IntStr(i)
            /\ \A j1, j2 \in 1..Len(differences) :
                  j1 < j2 =>
                      EntityIndex(differences[j1]) <= EntityIndex(differences[j2])

C12_Witness ==
    /\ Compared("compare_orders")
    /\ Len(cmp.old) = 1
    /\ Len(cmp.new) = 2
    /\ Len(differences) = 3
    /\ differences[3].operation = "added"

\* C13: old = [{"v":1}], new = [{"v":1},{"v":2}] yields exactly the single
\* record (added, key "1", value {"v":2}): the added record carries the whole
\* new entity as its value, and index 0 gets no record.
C13_AddedCarriesEntity ==
    (Compared("compare_orders") /\ cmp.old = <<D_V1>>
                                /\ cmp.new = <<D_V1, D_V2>>)
        => differences = <<Change("added", <<"1">>, D_V2, Absent)>>

\* The payload rule of a change record.
WellFormedChange(r) ==
    \/ /\ r.operation = "added"
       /\ r.value.type # "absent"
       /\ r.old_value.type = "absent"
    \/ /\ r.operation = "removed"
       /\ r.old_value.type # "absent"
       /\ r.value.type = "absent"
    \/ /\ r.operation = "changed"
       /\ r.value.type # "absent"
       /\ r.old_value.type # "absent"
       /\ ~SameDoc(r.value, r.old_value)

\* C14: every record produced by compare_dicts or compare_orders, and so
\* every record persisted in a history entry, is 'added' with a value and no
\* old value, 'removed' with an old value and no value, or 'changed' with
\* both and the two different.
C14_RecordPayload ==
    /\ cmp # NoCmp =>
          \A j \in 1..Len(differences) : WellFormedChange(differences[j])
    /\ \A e \in 1..Len(PersistedLog) :
          \A j \in 1..Len(PersistedLog[e].changes) :
              WellFormedChange(PersistedLog[e].changes[j])

\* C15: comparing a document with itself yields no records, and so does
\* comparing a list of entities with itself.
C15_SelfCompareEmpty ==
    /\ (Compared("compare_dicts") /\ SameDoc(cmp.old, cmp.new))
          => differences = <<>>
    /\ (Compared("compare_orders") /\ cmp.old = cmp.new)
          => differences = <<>>

C15_Witness ==
    /\ Compared("compare_orders")
    /\ cmp.old = <<D_B, D_V1>>
    /\ cmp.new = cmp.old
    /\ differences = <<>>

\* Position of a key in the union order of two mappings: the keys of old in
\* old's order, then the keys only in new in new's order.
KeyIndex(dict, k) == CHOOSE i \in 1..Len(dict.v) : dict.v[i].k = k
UnionRank(old, new, k) ==
    IF HasKey(old, k) THEN KeyIndex(old, k)
    ELSE Len(old.v) + KeyIndex(new, k)

\* The first segment of a record's key, and it read as a sequence position.
TopKey(r) == KeyParts(r.key)[1]
TopPosition(r) == CHOOSE i \in 0..9 : TopKey(r) = IntStr(i)

ExampleDiff ==
    << Change("changed", k_status, Str("B"), Str("A")),
       Change("added", k_vin, Str("X"), Absent) >>

\* C16: the records of a diff come in a fixed order: for two mappings the
\* keys of old in old's order before the keys only in new in new's order,
\* for two sequences the positions in ascending order; {"status":"A"}
\* against {"status":"B","vin":"X"} gives exactly [changed status (B, old
\* A), added vin X], and that list, appended and loaded back, is one entry
\* with the two records in that order.
C16_DiffOrder ==
    /\ (Compared("compare_dicts") /\ IsDict(cmp.old) /\ IsDict(cmp.new)) =>
          \A j1, j2 \in 1..Len(differences) :
              j1 < j2 =>
                  UnionRank(cmp.old, cmp.new, TopKey(differences[j1]))
                      <= UnionRank(cmp.old, cmp.new, TopKey(differences[j2]))
    /\ (Compared("compare_dicts") /\ IsList(cmp.old) /\ IsList(cmp.new)) =>
          \A j1, j2 \in 1..Len(differences) :
              j1 < j2 =>
                  TopPosition(differences[j1]) <= TopPosition(differences[j2])
    /\ (Compared("compare_dicts") /\ cmp.old = D_A /\ cmp.new = D_B) =>
          differences = ExampleDiff
    /\ (/\ cmp.fn = "compare_dicts" /\ cmp.old = D_A /\ cmp.new = D_B
        /\ Len(appends) = 1 /\ pc = "idle" /\ Loading) =>
          /\ raised = "none"
          /\ Len(loaded) = 1
          /\ loaded[1].changes = ExampleDiff

C16_Witness ==
    /\ cmp.fn = "compare_dicts" /\ cmp.old = D_A /\ cmp.new = D_B
    /\ Len(appends) = 1
    /\ pc = "idle"
    /\ Loading
    /\ Len(loaded) = 1
    /\ Len(loaded[1].changes) = 2

\* The records whose key is k or lies below k.
RecordsAt(k) ==
    SelectSeq(differences,
              LAMBDA r : r.key = k \/ StartsWith(r.key, k \o <<".">>))

\* C17: where the values at one path differ in type, the diff emits exactly
\* one 'changed' record at that path, carrying the whole old and the whole
\* new value, and no record for any deeper path.
C17_TypeMismatch ==
    Compared("compare_dicts") =>
        /\ cmp.old.type # cmp.new.type =>
              differences = <<Change("changed", <<>>, cmp.new, cmp.old)>>
        /\ (IsDict(cmp.old) /\ IsDict(cmp.new)) =>
              \A i \in 1..Len(cmp.old.v) :
                  LET k == cmp.old.v[i].k
                      o == cmp.old.v[i].d
                  IN  (HasKey(cmp.new, k) /\ o.type # ValueOf(cmp.new, k).type)
                          => RecordsAt(k) =
                                <<Change("changed", k, ValueOf(cmp.new, k), o)>>

C17_Witness ==
    /\ Compared("compare_dicts")
    /\ cmp.old = D_A
    /\ cmp.new = D_Nested
    /\ RecordsAt(k_status) =
          <<Change("changed", k_status, Dict(<<Item(k_code, Str("A"))>>),
                   Str("A"))>>

\* C18: two appends on the same history file that interleave without a lock
\* can lose one of them: the run that saves writes the list it loaded plus
\* its own entry, so when another append was completed between its load and
\* its save the persisted log is left without that entry.
C18_LostUpdate ==
    [][(other.pc = "save" /\ other'.pc = "done") =>
          /\ PersistedLog' = other.history
          /\ (Len(appends) > other.seen
                => Len(PersistedLog') < Len(appends'))
      ]_vars

C18_Witness ==
    /\ other.pc = "done"
    /\ pc = "idle"
    /\ Len(appends) = 2
    /\ Len(PersistedLog) = 1
    /\ ~crashed
    /\ ~tampered

\* C19: a failure of the write of the history file during an append leaves
\* the append as an error of that run: the error is not dropped on the way,
\* and the run does not write the file again.
C19_WriteFailurePropagates ==
    [][/\ (pc # "failed" /\ pc' = "failed") =>
             (raised' = "OSError" /\ historyFile' = historyFile
                                  /\ appends' = appends)
       /\ pc = "failed" =>
             (pc' = "failed" /\ historyFile' = historyFile
                             /\ appends' = appends)
      ]_vars

C19_Witness ==
    /\ pc = "failed"
    /\ raised = "OSError"
    /\ NoCall
    /\ historyFile.exists
    /\ historyFile.bytes # <<>>
    /\ json_load(historyFile.bytes).exc # "none"

\* C20: called with exit_on_error=False and max_retries >= 1,
\* request_with_retry either returns a response whose status passed
\* raise_for_status or raises RuntimeError; it returns neither None nor a
\* response with an error status, and it does not end the program.
C20_RetryOutcomes ==
    (retry.pc # "idle" /\ ~retry.exit_on_error /\ retry.max_retries >= 1) =>
        /\ retry.pc \in {"loop", "returned", "raised", "done"}
        /\ retry.pc = "loop" => retry.attempt < retry.max_retries
        /\ retry.pc \in {"returned", "done"} =>
              /\ retry.returned = "response"
              /\ raise_for_status(retry.status) = "none"
        /\ retry.pc = "raised" => retry.exc = "RuntimeError"

C20_Witness ==
    /\ ~retry.exit_on_error
    /\ retry.max_retries = 3
    /\ retry.pc = "raised"
    /\ retry.exc = "RuntimeError"
    /\ retry.requests = 3
    /\ retry.sleeps = <<1, 2>>

\* C21: a call of request_with_retry issues at most max_retries requests; a
\* further request follows only a 5xx response, after a sleep of 5**attempt
\* seconds, or a RequestException, after a sleep of 2**attempt seconds; any
\* other error status ends the call on that attempt.
C21_RetryBudget ==
    retry.pc # "idle" =>
        /\ retry.requests <= retry.max_retries
        /\ Len(retry.outcomes) = retry.requests
        /\ Len(retry.sleeps) =
              IF retry.pc = "loop" THEN retry.requests
              ELSE Larger(retry.requests, 1) - 1
        /\ \A i \in 1..Len(retry.sleeps) :
              \/ /\ retry.outcomes[i] >= ServerErrorFrom
                 /\ retry.sleeps[i] = ServerBackoffBase ^ (i - 1)
              \/ /\ retry.outcomes[i] = 0
                 /\ retry.sleeps[i] = NetworkBackoffBase ^ (i - 1)
        /\ \A i \in 1..retry.requests :
              (retry.outcomes[i] >= 400 /\ retry.outcomes[i] < ServerErrorFrom)
                  => (i = retry.requests /\ retry.pc \in {"raised", "exited"})

C21_Witness ==
    /\ retry.max_retries = 3
    /\ retry.outcomes = <<500, 0, 404>>
    /\ retry.sleeps = <<1, 2>>
    /\ retry.requests = 3
    /\ retry.pc = "raised"

C23_SchedulerContinues ==
    [][(/\ sched.pc = "scheduled_check"
        /\ sched'.pc # "scheduled_check"
        /\ sched'.outcome # "returns")
          => (/\ sched'.pc = "error_pause"
              /\ sched'.logged = Counted(sched.logged))
      ]_vars

\* The places a signal is said to arrive at.
SignalPlaces == {"initial_check", "wait", "scheduled_check", "error_pause"}

\* C30: once SIGINT or SIGTERM has been delivered, during the initial
\* check, the 2-hour wait, a scheduled check or the 60-second pause, no
\* further check_order_status() is started, the check in progress runs to
\* its end, and the loop terminates.
C30_Shutdown ==
    /\ [][sched.signalAt \in SignalPlaces =>
            /\ sched'.pc = "scheduled_check" => sched.pc = "scheduled_check"
            /\ sched'.checks = sched.checks
            /\ sched'.pc = "done" => sched.pc = "while"
         ]_vars
    /\ (sched.signalAt \in SignalPlaces) ~> (sched.pc \in SchedOver)

C30_Witness ==
    /\ sched.signalAt = "wait"
    /\ sched.pc = "done"
    /\ sched.checks = 2
    /\ sched.logged = 1

\* C24: every entry a polling run adds to the history log has a non-empty
\* list of changes, and a run whose comparison finds no differences leaves
\* the content of the history file and of the cached orders file as it was.
C24_SkipEmptyAppend ==
    /\ [](\A e \in 1..Len(PersistedLog) : PersistedLog[e].changes # <<>>)
    /\ [][/\ Len(appends') > Len(appends) =>
                appends'[Len(appends')].changes # <<>>
          /\ (poll'.polls > poll.polls /\ poll'.compared
                                        /\ differences' = <<>>) =>
                /\ historyFile' = historyFile
                /\ poll'.ordersFile = poll.ordersFile
                /\ poll'.pc = "idle"
         ]_vars

C24_Witness ==
    /\ poll.pc = "idle"
    /\ poll.polls = 2
    /\ poll.compared
    /\ differences = <<>>
    /\ Len(appends) = 1
    /\ Len(PersistedLog) = 1

\* The lists of changes of the persisted entries, in log order.
LoggedChanges == [e \in 1..Len(PersistedLog) |-> PersistedLog[e].changes]

\* C26: no detected change is lost between the two files: whenever no run
\* is under way, also after a run that failed or died between its two
\* writes, the history log holds an entry for the differences of every
\* snapshot that was written over the cached orders file.
C26_NoLostChange ==
    poll.pc = "idle" => LoggedChanges = poll.saved

\* C29: a run of main that gets an empty order list from the API while the
\* cache holds a non-empty snapshot keeps the cached data: the orders file
\* and the history log stay as they are and nothing is appended.
C29_EmptyAnswerKeepsCache ==
    [][(/\ poll'.polls > poll.polls
        /\ poll'.mode = "cli"
        /\ poll'.new = <<>>
        /\ poll.ordersFile.exists
        /\ poll.ordersFile.orders # <<>>)
          => (/\ poll'.ordersFile = poll.ordersFile
              /\ historyFile' = historyFile
              /\ appends' = appends
              /\ poll'.pc = "idle")
      ]_vars

C29_Witness ==
    /\ poll.polls = 1
    /\ poll.mode = "cli"
    /\ poll.new = <<>>
    /\ poll.ordersFile = Cache(<<D_V1, D_V2>>)
    /\ poll.pc = "idle"
    /\ ~poll.compared
    /\ appends = <<>>

\* C25: an append that finds the history file present but unparseable takes
\* the log as empty: it raises nothing, and once it has completed the file
\* is a valid log of exactly one entry, the new one.
C25_AppendOverCorrupt ==
    [][/\ (/\ started' = started + 1
           /\ historyFile.exists
           /\ json_load(historyFile.bytes).exc # "none")
             => (/\ raised' = "none"
                 /\ history' = <<HistoryEntry(today', differences')>>)
       /\ (appends' # appends /\ Len(history) = 1)
             => PersistedLog' = history
      ]_vars

\* C27: a sensor is on exactly when the coordinator's latest changes hold a
\* record whose leading key segment is the index of the sensor's order in
\* coordinator.orders (off without changes or without the order).
BelongsTo(c, order_id) ==
    LET order_index == OrderIndex(c.orders, order_id)
    IN  /\ order_index # -1
        /\ \E i \in 1..Len(c.changes) :
              KeyParts(c.changes[i].key)[1] = IntStr(order_index)

C27_SensorOn ==
    \A order_id \in coord.sensors :
        is_on(coord, order_id) <=> BelongsTo(coord, order_id)

\* C28: over any sequence of invocations a migration is executed only if
\* its name is not in the persisted applied set at the start of the
\* invocation, its name is added only if it raised nothing, a failing
\* migration lets the later ones run, the applied set never shrinks, and a
\* migration that once succeeded is never executed again.
Executed == runner'.last.outcome # "none"

ExecutedOnlyIfNew == Executed => runner'.last.name \notin runner.start

AddedOnlyOnSuccess ==
    (runner.pc = "loop" /\ runner'.applied # runner.applied)
        => /\ runner'.last.outcome = "ok"
           /\ runner'.applied = runner.applied \cup {runner'.last.name}

FailureLetsLaterRun ==
    (Executed /\ runner'.last.outcome = "Exception")
        => /\ runner'.pc = "loop"
           /\ runner'.at = runner.at + 1

AppliedNeverShrinks ==
    /\ runner'.pc = "loop" /\ runner.pc = "loop"
          => runner.applied \subseteq runner'.applied
    /\ load_applied_migrations(runner.file)
          \subseteq load_applied_migrations(runner'.file)

NeverExecutedAgain == Executed => runner'.last.name \notin runner.succeeded

C28_RunOnce ==
    [][/\ ExecutedOnlyIfNew
       /\ AddedOnlyOnSuccess
       /\ FailureLetsLaterRun
       /\ AppliedNeverShrinks
       /\ NeverExecutedAgain
      ]_vars

C28_WithinInvocation ==
    [][/\ ExecutedOnlyIfNew
       /\ AddedOnlyOnSuccess
       /\ FailureLetsLaterRun
      ]_vars

====
